---- MODULE Spec2Model ----
(***************************************************************************)
(* A model of google_authz_client: token discovery (token.py), the         *)
(* synchronous/asynchronous HTTP client (client.py), the payload models    *)
(* (models.py) and the FastAPI / Flask adapters (fastapi.py, flask.py).    *)
(*                                                                         *)
(* Python str values are sequences of one-character strings; Python None   *)
(* is the distinguished value None below (no str has a four-letter         *)
(* "character").  Names that are only compared for equality (cookie names, *)
(* modules, actions, JSON keys) are plain TLA+ strings.                    *)
(***************************************************************************)
EXTENDS Integers, Sequences, FiniteSets, TLC

\* the token model: the inputs, the result, the position
VARIABLES tin, tout, tpc
\* the client model: the client's configuration, the caller's cache mapping,
\* the last call with its outcome, the number of EffectiveAuth objects the
\* client has created, the number of check_permission calls made with a
\* usable token and token type, and the number of POST /authz/check sent
VARIABLES authz_client, caller_cache, last, nobj, check_calls, check_posts
\* the adapter model: the route's configuration, the inbound request, the
\* number of the next step of the route, the cache attribute of the request
\* (request.state / flask.g), the requests sent to the remote service and the
\* permission checks answered while handling the request, the status of the
\* response (0 while the request is handled), whether the handler has run,
\* and the user the adapter resolved
VARIABLES route, request, pc, slot, posts, checks, http, handler_ran, user
\* the inbound requests the application has answered before this one: for
\* each, the token discovered, whether a user was resolved for it, and the
\* number of EffectiveAuth objects created up to its end
VARIABLES served
\* the payload model: a decoded /authz response body, the outcome of
\* building an EffectiveAuth from it, and the last allows() asked of it
VARIABLES mpayload, mauth, mquery
\* the asynchronous model: for each concurrent fetch_effective_auth call on
\* the shared AsyncGoogleAuthzClient, where the coroutine stands, its
\* arguments, the request it awaits, the response that has arrived for it
\* and its outcome (the shared cache is caller_cache)
VARIABLES coro

vars ==
  <<tin, tout, tpc, authz_client, caller_cache, last, nobj, check_calls,
    check_posts, route, request, pc, slot, posts, checks, http, handler_ran,
    user, served, mpayload, mauth, mquery, coro>>

(* ---------------------------------------------------------------------- *)
(* Bounds of the model                                                    *)
(* ---------------------------------------------------------------------- *)
\* most header entries an inbound request carries in the token model
MaxHeaders == 2
\* most EffectiveAuth objects the client creates in one run
MaxObjects == 1
\* most check_permission calls that reach the transport in one run
MaxChecks == 2
\* most inbound requests the application handles in one run
MaxRequests == 2
\* most concurrent fetch_effective_auth calls on the shared asynchronous
\* client
MaxTasks == 2

(* ---------------------------------------------------------------------- *)
(* Python values                                                          *)
(* ---------------------------------------------------------------------- *)
None == <<"None">>

\* bool(x) for an Optional[str]
Truthy(s) == s # None /\ s # <<>>

UpperAlpha ==
  <<"A","B","C","D","E","F","G","H","I","J","K","L","M",
    "N","O","P","Q","R","S","T","U","V","W","X","Y","Z">>
LowerAlpha ==
  <<"a","b","c","d","e","f","g","h","i","j","k","l","m",
    "n","o","p","q","r","s","t","u","v","w","x","y","z">>

LowerChar(c) ==
  IF \E i \in 1..Len(UpperAlpha) : UpperAlpha[i] = c
    THEN LowerAlpha[CHOOSE i \in 1..Len(UpperAlpha) : UpperAlpha[i] = c]
    ELSE c

\* str.lower()
Lower(s) == [i \in 1..Len(s) |-> LowerChar(s[i])]

\* the characters str.strip() removes (those of the model's alphabet)
IsSpace(c) == c \in {" ", "\t"}

RECURSIVE LStrip(_)
LStrip(s) == IF s # <<>> /\ IsSpace(Head(s)) THEN LStrip(Tail(s)) ELSE s

RECURSIVE RStrip(_)
RStrip(s) ==
  IF s # <<>> /\ IsSpace(s[Len(s)]) THEN RStrip(SubSeq(s, 1, Len(s) - 1)) ELSE s

\* str.strip()
Strip(s) == RStrip(LStrip(s))

\* str.startswith(p)
StartsWith(s, p) == Len(s) >= Len(p) /\ SubSeq(s, 1, Len(p)) = p

\* Mapping.get(k): the value under k, None when k is not a key
Get(m, k) == IF k \in DOMAIN m THEN m[k] ELSE None

(* ---------------------------------------------------------------------- *)
(* token.py                                                               *)
(* ---------------------------------------------------------------------- *)
BEARER_PREFIX == <<"b","e","a","r","e","r"," ">>

extract_bearer_token(header_value) ==
  IF ~Truthy(header_value) THEN None
  ELSE LET value == Strip(header_value) IN
       IF StartsWith(Lower(value), BEARER_PREFIX)
         THEN Strip(SubSeq(value, Len(BEARER_PREFIX) + 1, Len(value)))
         ELSE IF value = <<>> THEN None ELSE value

\* the loop of discover_token: the value of the first header, in iteration
\* order, whose lower-cased name equals the lower-cased header_name
RECURSIVE find_header(_, _)
find_header(headers, header_name) ==
  IF headers = <<>> THEN None
  ELSE IF Lower(Head(headers).key) = Lower(header_name)
         THEN Head(headers).value
         ELSE find_header(Tail(headers), header_name)

\* discover_token with the calls it makes to extract_bearer_token
discover_token_header_first(headers, cookies, cookie_name, header_name) ==
  LET header == find_header(headers, header_name)
      cookie == Get(cookies, cookie_name)
  IN IF header # None
       THEN [ret |-> extract_bearer_token(header), extract_calls |-> <<header>>]
       ELSE [ret |-> IF Truthy(cookie) THEN cookie ELSE None,
             extract_calls |-> <<header>>]

discover_token_trace(headers, cookies, cookie_name, header_name) ==
  LET cookie == Get(cookies, cookie_name) IN
  IF Truthy(cookie)
    THEN [ret |-> cookie, extract_calls |-> <<>>]
    ELSE LET header == find_header(headers, header_name) IN
         [ret |-> extract_bearer_token(header), extract_calls |-> <<header>>]

discover_token(headers, cookies, cookie_name, header_name) ==
  discover_token_trace(headers, cookies, cookie_name, header_name).ret

(* ---------------------------------------------------------------------- *)
(* Inputs of the token model                                              *)
(* ---------------------------------------------------------------------- *)
authorization == <<"a","u","t","h","o","r","i","z","a","t","i","o","n">>
Authorization == <<"A","u","t","h","o","r","i","z","a","t","i","o","n">>
x_token == <<"x","-","t","o","k","e","n">>

\* the word "bearer" in several letter cases
BearerWords ==
  { <<"b","e","a","r","e","r">>, <<"B","e","a","r","e","r">>,
    <<"B","E","A","R","E","R">>, <<"b","E","a","R","e","r">> }
OtherWords == { <<>>, <<"t","o","k">>, <<"b","e","a","r">> }
LeadSpace == { <<>>, <<" ">>, <<"\t"," ">> }
SepSpace == { <<>>, <<" ">>, <<" "," ">>, <<"\t">>, <<" ","\t">> }
Remainders == { <<>>, <<"x">>, <<"x"," ","y">> }
TrailSpace == { <<>>, <<" ">>, <<" ","\t">> }

HeaderParts ==
  [lead : LeadSpace, word : BearerWords \cup OtherWords, sep : SepSpace,
   rem : Remainders, trail : TrailSpace]

Compose(p) == p.lead \o p.word \o p.sep \o p.rem \o p.trail

HeaderNames == { authorization, Authorization, x_token }
RequestHeaderValues ==
  { <<>>, <<"B","e","a","r","e","r"," ","h">>, <<"h">>, <<" ">> }
CookieNames == { "session", "sid" }
CookieValues == { <<>>, <<"c">>, <<"B","e","a","r","e","r"," ","h">> }

HeaderEntries == [key : HeaderNames, value : RequestHeaderValues]

SeqsUpTo(S, n) == UNION { [1..k -> S] : k \in 0..n }

HeaderMaps == SeqsUpTo(HeaderEntries, MaxHeaders)
CookieMaps == UNION { [D -> CookieValues] : D \in SUBSET CookieNames }

(* ---------------------------------------------------------------------- *)
(* The token model: Init draws the inputs, the actions apply the function *)
(* ---------------------------------------------------------------------- *)
InitToken ==
  /\ tpc = "start"
  /\ tout = None
  /\ \/ \E p \in HeaderParts :
          tin = [op |-> "extract", parts |-> p, header_value |-> Compose(p)]
     \/ tin = [op |-> "extract", parts |-> None, header_value |-> None]
     \/ \E h \in HeaderMaps, c \in CookieMaps, cn \in CookieNames,
           hn \in HeaderNames :
          tin = [op |-> "discover", headers |-> h, cookies |-> c,
                 cookie_name |-> cn, header_name |-> hn]

ExtractBearerToken ==
  /\ tpc = "start"
  /\ tin.op = "extract"
  /\ tout' = extract_bearer_token(tin.header_value)
  /\ tpc' = "done"
  /\ UNCHANGED tin
  /\ UNCHANGED <<mpayload, mauth, mquery>>
  /\ UNCHANGED coro
  /\ UNCHANGED <<authz_client, caller_cache, last, nobj, check_calls, check_posts>>
  /\ UNCHANGED <<route, request, pc, slot, posts, checks, http, handler_ran, user, served>>

DiscoverToken ==
  /\ tpc = "start"
  /\ tin.op = "discover"
  /\ tout' = discover_token_trace(tin.headers, tin.cookies, tin.cookie_name,
                                  tin.header_name)
  /\ tpc' = "done"
  /\ UNCHANGED tin
  /\ UNCHANGED <<mpayload, mauth, mquery>>
  /\ UNCHANGED coro
  /\ UNCHANGED <<authz_client, caller_cache, last, nobj, check_calls, check_posts>>
  /\ UNCHANGED <<route, request, pc, slot, posts, checks, http, handler_ran, user, served>>

NextToken == ExtractBearerToken \/ DiscoverToken

(* ---------------------------------------------------------------------- *)
(* JSON values as response.json() yields them                             *)
(* ---------------------------------------------------------------------- *)
JNull == [t |-> "null"]
JBool(b) == [t |-> "bool", b |-> b]
JNum(n) == [t |-> "num", n |-> n]
JStr(s) == [t |-> "str", s |-> s]
JList(items) == [t |-> "list", items |-> items]
JObj(m) == [t |-> "obj", m |-> m]

\* the empty dict / the empty mapping
EmptyMap == <<>>

\* bool(v) of a decoded JSON value
JTruthy(v) ==
  CASE v.t = "null" -> FALSE
    [] v.t = "bool" -> v.b
    [] v.t = "num" -> v.n # 0
    [] v.t = "str" -> v.s # ""
    [] v.t = "list" -> v.items # <<>>
    [] v.t = "obj" -> DOMAIN v.m # {}

\* str(v) of a decoded JSON scalar
PyStr(v) ==
  CASE v.t = "str" -> v.s
    [] v.t = "null" -> "None"
    [] v.t = "bool" -> IF v.b THEN "True" ELSE "False"
    [] v.t = "num" -> ToString(v.n)
    [] OTHER -> "<repr>"

\* dict.get(key) on a decoded JSON object (None is JSON null)
JGet(payload, key) == IF key \in DOMAIN payload.m THEN payload.m[key] ELSE JNull

\* dict.get(key, default)
JGetDefault(payload, key, default) ==
  IF key \in DOMAIN payload.m THEN payload.m[key] ELSE default

(* ---------------------------------------------------------------------- *)
(* Outcomes of a call: a returned value or a raised exception             *)
(* ---------------------------------------------------------------------- *)
Return(v) == [kind |-> "return", value |-> v]
Raise(e) == [kind |-> "raise", exc |-> e]

\* errors.py: the exception classes and their base classes
GoogleAuthzErrors ==
  { "GoogleAuthzError", "MissingCredentialsError", "PermissionDeniedError" }

IsGoogleAuthzError(exc) == exc \in GoogleAuthzErrors

(* ---------------------------------------------------------------------- *)
(* models.py                                                              *)
(* ---------------------------------------------------------------------- *)
\* the EffectiveAuth dataclass; id is the identity of the object
EffectiveAuth(id, subject, permissions, raw) ==
  [cls |-> "EffectiveAuth", id |-> id, subject |-> subject,
   permissions |-> permissions, raw |-> raw]

allows_without_wildcard(auth, module, action) ==
  LET actions == IF module \in DOMAIN auth.permissions
                   THEN auth.permissions[module] ELSE <<>>
  IN \E i \in 1..Len(actions) : actions[i] = action

\* EffectiveAuth.allows
allows(auth, module, action) ==
  LET actions == IF module \in DOMAIN auth.permissions
                   THEN auth.permissions[module] ELSE <<>>
  IN \/ \E i \in 1..Len(actions) : actions[i] = action
     \/ \E i \in 1..Len(actions) : actions[i] = "*"

\* the PermissionCheckResult dataclass
PermissionCheckResult(allowed, permitted_actions) ==
  [cls |-> "PermissionCheckResult", allowed |-> allowed,
   permitted_actions |-> permitted_actions]

\* list(d) of a dict: its keys (in some fixed order)
RECURSIVE KeyList(_)
KeyList(D) ==
  IF D = {} THEN <<>>
  ELSE LET k == CHOOSE x \in D : TRUE IN <<JStr(k)>> \o KeyList(D \ {k})

from_payload_keeps_string(payload) ==
  IF payload.t # "obj" THEN Raise("AttributeError")
  ELSE
    LET allowed == JTruthy(JGet(payload, "allowed"))
        got == JGet(payload, "permitted_actions")
        actions == IF JTruthy(got) THEN got ELSE JList(<<>>)
        permitted ==
          CASE actions.t = "list" -> actions.items
            [] actions.t = "obj" -> KeyList(DOMAIN actions.m)
            [] actions.t = "str" -> <<actions>>
            [] OTHER -> <<>>
    IN Return(PermissionCheckResult(allowed, permitted))

\* PermissionCheckResult.from_payload; payload.get raises AttributeError
\* when the decoded body is not a JSON object
from_payload(payload) ==
  IF payload.t # "obj" THEN Raise("AttributeError")
  ELSE
    LET allowed == JTruthy(JGet(payload, "allowed"))
        got == JGet(payload, "permitted_actions")
        actions == IF JTruthy(got) THEN got ELSE JList(<<>>)
        permitted ==
          CASE actions.t = "list" -> actions.items
            [] actions.t = "obj" -> KeyList(DOMAIN actions.m)
            [] OTHER -> <<>>
    IN Return(PermissionCheckResult(allowed, permitted))

(* ---------------------------------------------------------------------- *)
(* client.py: _BaseClient                                                 *)
(* ---------------------------------------------------------------------- *)
\* an absent Optional[str] whose values are plain strings (token_type,
\* shared_secret)
NoneStr == "<None>"
StrTruthy(s) == s # NoneStr /\ s # ""

TOKEN_TYPES == { "id_token", "session_token", "access_token" }

BearerSpace == <<"B","e","a","r","e","r"," ">>

\* _BaseClient.__init__: the fields the calls read, or the ValueError of an
\* unsupported token_type
_BaseClient_init(config) ==
  IF config.token_type \notin TOKEN_TYPES THEN Raise("ValueError")
  ELSE Return([token_type |-> config.token_type,
               shared_secret |-> config.shared_secret,
               shared_secret_header |-> config.shared_secret_header])

\* _BaseClient._headers
_headers(client, token) ==
  IF ~Truthy(token) THEN Raise("MissingCredentialsError")
  ELSE
    LET headers == [k \in {"Accept", "Authorization"} |->
                      IF k = "Accept" THEN "application/json"
                      ELSE BearerSpace \o token]
    IN IF StrTruthy(client.shared_secret)
         THEN Return([k \in DOMAIN headers \cup {client.shared_secret_header} |->
                        IF k = client.shared_secret_header
                          THEN client.shared_secret ELSE headers[k]])
         ELSE Return(headers)

\* chosen_type of _token_payload: token_type or self.token_type
chosen_type_of(client, token_type) ==
  IF StrTruthy(token_type) THEN token_type ELSE client.token_type

\* _BaseClient._token_payload
_token_payload(client, token, token_type) ==
  IF ~Truthy(token) THEN Raise("MissingCredentialsError")
  ELSE
    LET chosen_type == chosen_type_of(client, token_type)
    IN IF chosen_type \notin TOKEN_TYPES THEN Raise("ValueError")
       ELSE Return([k \in {chosen_type} |-> token])

\* the loop of _effective_auth_from_payload over permissions.items()
normalize_permissions(permissions) ==
  LET kept == { m \in DOMAIN permissions :
                  permissions[m].t \in {"list", "str"} }
  IN [m \in kept |->
        IF permissions[m].t = "list"
          THEN [i \in 1..Len(permissions[m].items) |->
                  PyStr(permissions[m].items[i])]
          ELSE <<permissions[m].s>>]

\* _BaseClient._effective_auth_from_payload; the new object gets identity id
_effective_auth_from_payload(payload, id) ==
  IF payload.t # "obj" THEN Raise("AttributeError")
  ELSE
    LET first == JGet(payload, "subject")
        chosen == IF JTruthy(first) THEN first
                  ELSE JGetDefault(payload, "user", JStr("anonymous"))
        subject == PyStr(chosen)
        got == JGet(payload, "permissions")
        permissions == IF JTruthy(got) THEN got ELSE JObj(EmptyMap)
    IN IF permissions.t # "obj" THEN Raise("AttributeError")
       ELSE Return(EffectiveAuth(id, subject,
                                 normalize_permissions(permissions.m), payload))

_raise_for_status_4xx_only(response) ==
  IF response.status >= 400 /\ response.status < 500
    THEN Raise("GoogleAuthzError") ELSE Return(None)

\* _BaseClient._raise_for_status: httpx raises HTTPStatusError, an
\* httpx.HTTPError, for every status outside 2xx
_raise_for_status(response) ==
  IF response.status >= 200 /\ response.status <= 299
    THEN Return(None) ELSE Raise("GoogleAuthzError")

(* ---------------------------------------------------------------------- *)
(* The HTTP transport (httpx) as the client sees it                       *)
(* ---------------------------------------------------------------------- *)
\* a reply of the transport to one post(): a response with a status and a
\* body, or an exception raised by post() itself
Response(status, body) == [kind |-> "response", status |-> status, body |-> body]
TransportError(exc) == [kind |-> "error", exc |-> exc]
NoReply == [kind |-> "none"]

\* a body that is not well-formed JSON
Malformed == [t |-> "malformed"]

\* response.json()
response_json(response) ==
  IF response.body.t = "malformed" THEN Raise("JSONDecodeError")
  ELSE Return(response.body)

(* ---------------------------------------------------------------------- *)
(* client.py: fetch_effective_auth and check_permission                   *)
(* (GoogleAuthzClient and AsyncGoogleAuthzClient have the same body; the  *)
(* asynchronous one suspends at the post)                                 *)
(* ---------------------------------------------------------------------- *)
\* a cache argument: Python None or a mapping from token to object
NoCache == [some |-> FALSE, cls |-> "NoneType", store |-> EmptyMap]
Cache(store) == [some |-> TRUE, cls |-> "dict", store |-> store]

\* a token.RequestScopedCache object passed as cache; store is its _store
ScopedCache(store) ==
  [some |-> TRUE, cls |-> "RequestScopedCache", store |-> store]

\* dict assignment d[k] = v
Put(store, k, v) == [x \in DOMAIN store \cup {k} |-> IF x = k THEN v ELSE store[x]]

cache_hit_never(token, cache) == FALSE

\* the test of the early return of fetch_effective_auth:
\*   cache and token in cache and isinstance(cache[token], EffectiveAuth)
cache_hit(token, cache) ==
  /\ cache.some
  /\ DOMAIN cache.store # {}
  /\ token \in DOMAIN cache.store
  /\ cache.store[token].cls = "EffectiveAuth"

\* fetch_effective_auth up to the post: the early return, or the exception
\* of an argument of post(), or the request that is sent
fetch_before_post(client, token, cache, token_type) ==
  \* `cache and token in cache` with a RequestScopedCache: the object is
  \* truthy (it has no __bool__ and no __len__) and `in` raises TypeError
  \* (it has no __contains__, no __iter__ and no __getitem__)
  IF cache.cls = "RequestScopedCache"
    THEN [done |-> TRUE, outcome |-> Raise("TypeError")]
  ELSE IF cache_hit(token, cache)
    THEN [done |-> TRUE, outcome |-> Return(cache.store[token])]
  ELSE
    LET headers == _headers(client, token)
        json == _token_payload(client, token, token_type)
    IN IF headers.kind = "raise" THEN [done |-> TRUE, outcome |-> headers]
       ELSE IF json.kind = "raise" THEN [done |-> TRUE, outcome |-> json]
       ELSE [done |-> FALSE,
             request |-> [method |-> "POST", path |-> "/authz",
                          headers |-> headers.value, json |-> json.value]]

fetch_after_post_truthy_cache(token, cache, reply, id) ==
  IF reply.kind = "error"
    THEN [outcome |-> Raise(reply.exc), cache |-> cache]
  ELSE
    LET status == _raise_for_status(reply)
        payload == response_json(reply)
        auth == _effective_auth_from_payload(payload.value, id)
    IN IF status.kind = "raise" THEN [outcome |-> status, cache |-> cache]
       ELSE IF payload.kind = "raise" THEN [outcome |-> payload, cache |-> cache]
       ELSE IF auth.kind = "raise" THEN [outcome |-> auth, cache |-> cache]
       ELSE [outcome |-> auth,
             cache |-> IF cache.some /\ DOMAIN cache.store # {}
                         THEN Cache(Put(cache.store, token, auth.value))
                         ELSE cache]

fetch_after_post_stores_first(token, cache, reply, id) ==
  IF reply.kind = "error"
    THEN [outcome |-> Raise(reply.exc), cache |-> cache]
  ELSE
    LET status == _raise_for_status(reply)
        payload == response_json(reply)
        auth == _effective_auth_from_payload(payload.value, id)
        stored == IF cache.some
                    THEN Cache(Put(cache.store, token, auth.value))
                    ELSE cache
    IN IF payload.kind = "raise" THEN [outcome |-> payload, cache |-> cache]
       ELSE IF auth.kind = "raise" THEN [outcome |-> auth, cache |-> cache]
       ELSE IF status.kind = "raise" THEN [outcome |-> status, cache |-> stored]
       ELSE [outcome |-> auth, cache |-> stored]

\* fetch_effective_auth from the reply of the post on
fetch_after_post(token, cache, reply, id) ==
  IF reply.kind = "error"
    THEN [outcome |-> Raise(reply.exc), cache |-> cache]
  ELSE
    LET status == _raise_for_status(reply)
        payload == response_json(reply)
        auth == _effective_auth_from_payload(payload.value, id)
    IN IF status.kind = "raise" THEN [outcome |-> status, cache |-> cache]
       ELSE IF payload.kind = "raise" THEN [outcome |-> payload, cache |-> cache]
       ELSE IF auth.kind = "raise" THEN [outcome |-> auth, cache |-> cache]
       ELSE [outcome |-> auth,
             cache |-> IF cache.some
                         THEN Cache(Put(cache.store, token, auth.value))
                         ELSE cache]

\* fetch_effective_auth: the outcome, the cache afterwards and the requests
\* handed to the transport; reply is the transport's answer to the post
fetch_effective_auth(client, token, cache, token_type, reply, id) ==
  LET before == fetch_before_post(client, token, cache, token_type) IN
  IF before.done
    THEN [outcome |-> before.outcome, cache |-> cache, requests |-> <<>>]
    ELSE LET after == fetch_after_post(token, cache, reply, id)
         IN [outcome |-> after.outcome, cache |-> after.cache,
             requests |-> <<before.request>>]

\* check_permission up to the post
check_before_post(client, module, action, token, token_type) ==
  LET headers == _headers(client, token)
      payload == _token_payload(client, token, token_type)
  IN IF headers.kind = "raise" THEN [done |-> TRUE, outcome |-> headers]
     ELSE IF payload.kind = "raise" THEN [done |-> TRUE, outcome |-> payload]
     ELSE
       LET base == [k \in {"module", "action"} |->
                      IF k = "module" THEN module ELSE action]
           \* {"module": ..., "action": ..., **payload}: later keys win
           json == [k \in DOMAIN base \cup DOMAIN payload.value |->
                      IF k \in DOMAIN payload.value THEN payload.value[k]
                      ELSE base[k]]
       IN [done |-> FALSE,
           request |-> [method |-> "POST", path |-> "/authz/check",
                        headers |-> headers.value, json |-> json]]

\* check_permission from the reply of the post on
check_after_post(reply) ==
  IF reply.kind = "error" THEN Raise(reply.exc)
  ELSE
    LET status == _raise_for_status(reply)
        payload == response_json(reply)
    IN IF status.kind = "raise" THEN status
       ELSE IF payload.kind = "raise" THEN payload
       ELSE from_payload(payload.value)

check_permission_without_post(client, module, action, token, token_type, reply) ==
  LET before == check_before_post(client, module, action, token, token_type) IN
  IF before.done
    THEN [outcome |-> before.outcome, requests |-> <<>>]
    ELSE [outcome |-> check_after_post(reply), requests |-> <<>>]

\* check_permission: the outcome and the requests handed to the transport
check_permission(client, module, action, token, token_type, reply) ==
  LET before == check_before_post(client, module, action, token, token_type) IN
  IF before.done
    THEN [outcome |-> before.outcome, requests |-> <<>>]
    ELSE [outcome |-> check_after_post(reply), requests |-> <<before.request>>]

(* ---------------------------------------------------------------------- *)
(* Inputs of the client model                                             *)
(* ---------------------------------------------------------------------- *)
TokA == <<"a">>
TokB == <<"b">>
CallTokens == { None, <<>>, TokA, TokB }
TokenTypeArgs == { NoneStr, "session_token", "bogus" }

\* the keyword arguments a client is constructed with
ClientConfigs ==
  { [token_type |-> "id_token", shared_secret |-> NoneStr,
     shared_secret_header |-> "X-Authz-Shared-Secret"],
    [token_type |-> "access_token", shared_secret |-> "s3cret",
     shared_secret_header |-> "X-Authz-Shared-Secret"],
    [token_type |-> "bogus", shared_secret |-> NoneStr,
     shared_secret_header |-> "X-Authz-Shared-Secret"] }

\* the clients that exist: those whose construction returned
Clients ==
  { _BaseClient_init(config).value :
      config \in { c \in ClientConfigs : _BaseClient_init(c).kind = "return" } }

AlicePayload ==
  JObj(("subject" :> JStr("alice")) @@
       ("permissions" :> JObj("inventory" :> JList(<<JStr("read")>>))))
BobPayload ==
  JObj(("user" :> JStr("bob")) @@
       ("permissions" :> JObj(("inventory" :> JStr("*")) @@
                              ("orders" :> JNum(5)))))

AuthzReplies ==
  { Response(200, AlicePayload), Response(200, BobPayload),
    Response(200, Malformed), Response(403, JObj(EmptyMap)),
    Response(500, AlicePayload), TransportError("httpx.ConnectError") }

CheckBodies ==
  { JObj(("allowed" :> JBool(TRUE)) @@
         ("permitted_actions" :> JList(<<JStr("read")>>))),
    JObj(("allowed" :> JBool(FALSE)) @@ ("permitted_actions" :> JList(<<>>))),
    JObj(EmptyMap),
    JObj(("allowed" :> JNum(1)) @@ ("permitted_actions" :> JStr("read"))),
    JObj(("allowed" :> JStr("no")) @@ ("permitted_actions" :> JNum(5))),
    JObj(("allowed" :> JNull) @@
         ("permitted_actions" :> JList(<<JStr("read"), JStr("write")>>))) }

CheckReplies ==
  { Response(200, b) : b \in CheckBodies } \cup
  { Response(200, Malformed),
    Response(500, JObj("allowed" :> JBool(TRUE))),
    TransportError("httpx.ReadTimeout") }

Permissions ==
  { [module |-> "inventory", action |-> "read"],
    [module |-> "orders", action |-> "write"] }

\* objects a caller may have put into the mapping it passes as cache
Preloaded ==
  EffectiveAuth(0, "carol", "inventory" :> <<"read">>,
                JObj("subject" :> JStr("carol")))
Junk == [cls |-> "object", id |-> 0]

InitialStores ==
  { EmptyMap, TokA :> Preloaded, <<>> :> Preloaded, TokA :> Junk }

(* ---------------------------------------------------------------------- *)
(* The client model: a caller makes calls on one client, passing its      *)
(* mapping as cache or no cache                                           *)
(* ---------------------------------------------------------------------- *)
NoCall == [op |-> "none"]

TokenIdle == tin = None /\ tout = None /\ tpc = "idle"

InitClient ==
  /\ authz_client \in Clients
  /\ caller_cache \in InitialStores
  /\ last = NoCall
  /\ nobj = 0
  /\ check_calls = 0
  /\ check_posts = 0

ClientIdle ==
  /\ authz_client = None /\ caller_cache = EmptyMap /\ last = NoCall
  /\ nobj = 0 /\ check_calls = 0 /\ check_posts = 0

\* no user resolved: Python None where an EffectiveAuth is expected
NoUser == [cls |-> "NoneType"]

AdapterIdle ==
  /\ route = None /\ request = None /\ pc = 0 /\ slot = NoCache
  /\ posts = <<>> /\ checks = <<>> /\ http = 0 /\ handler_ran = FALSE
  /\ user = NoUser /\ served = <<>>

\* the payload model at rest
NotBuilt == [kind |-> "none"]
NoQuery == [asked |-> FALSE]
PayloadIdle == mpayload = JNull /\ mauth = NotBuilt /\ mquery = NoQuery

\* no asynchronous call exists
AsyncIdle == coro = <<>>

ModelsIdle == PayloadIdle /\ AsyncIdle

Init == InitClient /\ TokenIdle /\ AdapterIdle /\ ModelsIdle

FetchEffectiveAuth ==
  /\ \E token \in CallTokens, token_type \in TokenTypeArgs, use_cache \in BOOLEAN :
       LET arg == IF use_cache THEN Cache(caller_cache) ELSE NoCache
           before == fetch_before_post(authz_client, token, arg, token_type)
       IN \E reply \in (IF before.done THEN {NoReply} ELSE AuthzReplies) :
            \* (r ranges over the one result of the call)
            \E r \in {fetch_effective_auth(authz_client, token, arg, token_type,
                                          reply, nobj + 1)} :
               /\ last' = [op |-> "fetch", token |-> token,
                           token_type |-> token_type, use_cache |-> use_cache,
                           module |-> NoneStr, action |-> NoneStr,
                           reply |-> reply, outcome |-> r.outcome,
                           requests |-> r.requests,
                           cache_before |-> caller_cache]
               /\ caller_cache' = IF use_cache THEN r.cache.store
                                   ELSE caller_cache
               /\ nobj' = IF r.outcome.kind = "return" /\ r.requests # <<>>
                            THEN nobj + 1 ELSE nobj
               /\ nobj' <= MaxObjects
  /\ UNCHANGED <<authz_client, check_calls, check_posts>>
  /\ UNCHANGED <<tin, tout, tpc>>
  /\ UNCHANGED <<mpayload, mauth, mquery>>
  /\ UNCHANGED coro
  /\ UNCHANGED <<route, request, pc, slot, posts, checks, http, handler_ran, user, served>>

CheckPermission ==
  /\ check_calls < MaxChecks
  /\ \E perm \in Permissions, token \in CallTokens, token_type \in TokenTypeArgs :
       LET before == check_before_post(authz_client, perm.module, perm.action,
                                       token, token_type)
       IN \E reply \in (IF before.done THEN {NoReply} ELSE CheckReplies) :
            \E r \in {check_permission(authz_client, perm.module, perm.action,
                                      token, token_type, reply)} :
               /\ last' = [op |-> "check", token |-> token,
                           token_type |-> token_type, use_cache |-> FALSE,
                           module |-> perm.module, action |-> perm.action,
                           reply |-> reply, outcome |-> r.outcome,
                           requests |-> r.requests,
                           cache_before |-> caller_cache]
               /\ check_calls' =
                    IF Truthy(token) /\ token_type \in TOKEN_TYPES \cup {NoneStr}
                      THEN check_calls + 1 ELSE check_calls
               /\ check_posts' = check_posts + Len(r.requests)
  /\ UNCHANGED <<authz_client, caller_cache, nobj>>
  /\ UNCHANGED <<tin, tout, tpc>>
  /\ UNCHANGED <<mpayload, mauth, mquery>>
  /\ UNCHANGED coro
  /\ UNCHANGED <<route, request, pc, slot, posts, checks, http, handler_ran, user, served>>

Next == FetchEffectiveAuth \/ CheckPermission

Spec == Init /\ [][Next]_vars

\* the token model leaves the client and the adapters alone
InitTokenModel == InitToken /\ ClientIdle /\ AdapterIdle /\ ModelsIdle

SpecToken == InitTokenModel /\ [][NextToken]_vars

(* ---------------------------------------------------------------------- *)
(* The payload model: an EffectiveAuth is built from a decoded /authz     *)
(* response body and asked what it allows                                 *)
(* ---------------------------------------------------------------------- *)
\* the values a module of "permissions" is mapped to
ActionValues ==
  { JList(<<JStr("read")>>), JList(<<JStr("read"), JStr("write")>>),
    JList(<<JStr("*")>>), JList(<<>>), JStr("read"), JStr("*"),
    JList(<<JNum(5)>>), JList(<<JNull, JStr("write")>>),
    JNum(5), JNull, JBool(TRUE), JObj("read" :> JBool(TRUE)) }

ModuleNames == { "inventory", "orders" }

\* the decoded bodies: with every mapping of some modules to such values
\* under "permissions", without that key, and with other values under it
Payloads ==
  { JObj(("subject" :> JStr("alice")) @@ ("permissions" :> JObj(p))) :
      p \in UNION { [D -> ActionValues] : D \in SUBSET ModuleNames } } \cup
  { JObj("subject" :> JStr("alice")),
    JObj(("user" :> JStr("bob")) @@ ("permissions" :> JNull)),
    JObj("permissions" :> JList(<<JStr("read")>>)),
    JList(<<>>) }

AskedModules == ModuleNames \cup { "billing" }
AskedActions == { "read", "write", "delete", "5", "None", "*" }

InitModels ==
  /\ mpayload \in Payloads
  /\ mauth = NotBuilt
  /\ mquery = NoQuery

\* client._effective_auth_from_payload(payload)
BuildEffectiveAuth ==
  /\ mauth = NotBuilt
  /\ mauth' = _effective_auth_from_payload(mpayload, 1)
  /\ UNCHANGED <<mpayload, mquery>>
  /\ UNCHANGED coro
  /\ UNCHANGED <<tin, tout, tpc>>
  /\ UNCHANGED <<authz_client, caller_cache, last, nobj, check_calls, check_posts>>
  /\ UNCHANGED <<route, request, pc, slot, posts, checks, http, handler_ran, user, served>>

\* auth.allows(module, action)
Allows ==
  /\ mauth.kind = "return"
  /\ \E module \in AskedModules, action \in AskedActions :
       mquery' = [asked |-> TRUE, module |-> module, action |-> action,
                  result |-> allows(mauth.value, module, action)]
  /\ UNCHANGED <<mpayload, mauth>>
  /\ UNCHANGED coro
  /\ UNCHANGED <<tin, tout, tpc>>
  /\ UNCHANGED <<authz_client, caller_cache, last, nobj, check_calls, check_posts>>
  /\ UNCHANGED <<route, request, pc, slot, posts, checks, http, handler_ran, user, served>>

NextModels == BuildEffectiveAuth \/ Allows

InitModelsModel ==
  InitModels /\ TokenIdle /\ ClientIdle /\ AdapterIdle /\ AsyncIdle

SpecModels == InitModelsModel /\ [][NextModels]_vars

(* ---------------------------------------------------------------------- *)
(* The scoped-cache model: a caller keeps one token.RequestScopedCache,   *)
(* whose _store is caller_cache, uses its methods and passes it as the    *)
(* cache of fetch_effective_auth                                          *)
(* ---------------------------------------------------------------------- *)
\* RequestScopedCache.get: self._store.get(key)
scoped_get(store, key) ==
  IF key \in DOMAIN store THEN [found |-> TRUE, value |-> store[key]]
  ELSE [found |-> FALSE]

\* RequestScopedCache.set: self._store[key] = value
scoped_set(store, key, value) == Put(store, key, value)

\* RequestScopedCache.clear: self._store.clear()
scoped_clear(store) == EmptyMap

Earlier ==
  EffectiveAuth(0, "dave", "orders" :> <<"*">>, JObj("subject" :> JStr("dave")))

StoredValues == { Preloaded, Earlier }

InitScoped ==
  /\ authz_client \in Clients
  /\ caller_cache = EmptyMap
  /\ last = NoCall
  /\ nobj = 0
  /\ check_calls = 0
  /\ check_posts = 0

ScopedSet ==
  /\ \E key \in {TokA, TokB}, value \in StoredValues :
       /\ caller_cache' = scoped_set(caller_cache, key, value)
       /\ last' = [op |-> "set", token |-> key, value |-> value]
  /\ UNCHANGED <<authz_client, nobj, check_calls, check_posts>>
  /\ UNCHANGED <<tin, tout, tpc>>
  /\ UNCHANGED <<mpayload, mauth, mquery>>
  /\ UNCHANGED coro
  /\ UNCHANGED <<route, request, pc, slot, posts, checks, http, handler_ran, user, served>>

ScopedGet ==
  /\ \E key \in {TokA, TokB} :
       last' = [op |-> "get", token |-> key,
                outcome |-> scoped_get(caller_cache, key)]
  /\ UNCHANGED <<authz_client, caller_cache, nobj, check_calls, check_posts>>
  /\ UNCHANGED <<tin, tout, tpc>>
  /\ UNCHANGED <<mpayload, mauth, mquery>>
  /\ UNCHANGED coro
  /\ UNCHANGED <<route, request, pc, slot, posts, checks, http, handler_ran, user, served>>

ScopedClear ==
  /\ caller_cache' = scoped_clear(caller_cache)
  /\ last' = [op |-> "clear", cache_before |-> caller_cache]
  /\ UNCHANGED <<authz_client, nobj, check_calls, check_posts>>
  /\ UNCHANGED <<tin, tout, tpc>>
  /\ UNCHANGED <<mpayload, mauth, mquery>>
  /\ UNCHANGED coro
  /\ UNCHANGED <<route, request, pc, slot, posts, checks, http, handler_ran, user, served>>

\* client.fetch_effective_auth(token, cache=the RequestScopedCache)
ScopedFetch ==
  /\ \E token \in CallTokens, token_type \in TokenTypeArgs :
       LET arg == ScopedCache(caller_cache)
           before == fetch_before_post(authz_client, token, arg, token_type)
       IN \E reply \in (IF before.done THEN {NoReply} ELSE AuthzReplies) :
            \E r \in {fetch_effective_auth(authz_client, token, arg, token_type,
                                          reply, nobj + 1)} :
               /\ last' = [op |-> "fetch", token |-> token,
                           token_type |-> token_type, reply |-> reply,
                           outcome |-> r.outcome, requests |-> r.requests,
                           cache_before |-> caller_cache]
               /\ caller_cache' = r.cache.store
               /\ nobj' = IF r.outcome.kind = "return" /\ r.requests # <<>>
                            THEN nobj + 1 ELSE nobj
               /\ nobj' <= MaxObjects
  /\ UNCHANGED <<authz_client, check_calls, check_posts>>
  /\ UNCHANGED <<tin, tout, tpc>>
  /\ UNCHANGED <<mpayload, mauth, mquery>>
  /\ UNCHANGED coro
  /\ UNCHANGED <<route, request, pc, slot, posts, checks, http, handler_ran, user, served>>

NextScoped == ScopedSet \/ ScopedGet \/ ScopedClear \/ ScopedFetch

InitScopedModel == InitScoped /\ TokenIdle /\ AdapterIdle /\ ModelsIdle

SpecScoped == InitScopedModel /\ [][NextScoped]_vars

(* ---------------------------------------------------------------------- *)
(* The asynchronous model: tasks call fetch_effective_auth on one shared  *)
(* AsyncGoogleAuthzClient, with one shared dict as cache or with none; a  *)
(* coroutine runs without interruption except at `await post(...)`        *)
(* ---------------------------------------------------------------------- *)
Tasks == 1..MaxTasks

NoRequest == [method |-> "none"]

\* a call that has not started
NotCalled ==
  [pc |-> "idle", token |-> <<>>, use_cache |-> FALSE, request |-> NoRequest,
   reply |-> NoReply, outcome |-> NotBuilt]

\* the token a POST /authz carries in its JSON body
body_token(req) == req.json[CHOOSE k \in DOMAIN req.json : TRUE]

\* what the remote service knows about the owner of a token
SubjectOf(token) == IF token = TokA THEN "alice" ELSE "bob"

ServerPayload(token) ==
  JObj(("subject" :> JStr(SubjectOf(token))) @@
       ("permissions" :> JObj("inventory" :> JList(<<JStr("read")>>))))

\* the answers the transport may give to a request: the service's answer
\* for the token of the request, an error status, or a failure of post()
ServerReplies(req) ==
  { Response(200, ServerPayload(body_token(req))),
    Response(500, JObj(EmptyMap)),
    TransportError("httpx.ReadTimeout") }

InitAsync ==
  /\ authz_client \in Clients
  /\ caller_cache = EmptyMap
  /\ coro = [t \in Tasks |-> NotCalled]
  /\ last = NoCall
  /\ nobj = 0
  /\ check_calls = 0
  /\ check_posts = 0

\* the cache argument of a call: the shared dict as it is now, or None
cache_arg(t) == IF coro[t].use_cache THEN Cache(caller_cache) ELSE NoCache

\* a task calls fetch_effective_auth: the coroutine runs up to the await of
\* post(), or to its end when it returns or raises before
AsyncCall(t) ==
  /\ coro[t].pc = "idle"
  /\ \E token \in {<<>>, TokA, TokB}, use_cache \in BOOLEAN :
       LET arg == IF use_cache THEN Cache(caller_cache) ELSE NoCache
           before == fetch_before_post(authz_client, token, arg, NoneStr)
       IN coro' = [coro EXCEPT ![t] =
                     IF before.done
                       THEN [pc |-> "done", token |-> token,
                             use_cache |-> use_cache, request |-> NoRequest,
                             reply |-> NoReply, outcome |-> before.outcome]
                       ELSE [pc |-> "awaiting", token |-> token,
                             use_cache |-> use_cache,
                             request |-> before.request,
                             reply |-> NoReply, outcome |-> NotBuilt]]
  /\ UNCHANGED <<authz_client, caller_cache, last, nobj, check_calls, check_posts>>
  /\ UNCHANGED <<tin, tout, tpc>>
  /\ UNCHANGED <<mpayload, mauth, mquery>>
  /\ UNCHANGED <<route, request, pc, slot, posts, checks, http, handler_ran, user, served>>

\* the transport gets the answer to the request of a suspended coroutine
TransportReply(t) ==
  /\ coro[t].pc = "awaiting"
  /\ coro[t].reply = NoReply
  /\ \E reply \in ServerReplies(coro[t].request) :
       coro' = [coro EXCEPT ![t].reply = reply]
  /\ UNCHANGED <<authz_client, caller_cache, last, nobj, check_calls, check_posts>>
  /\ UNCHANGED <<tin, tout, tpc>>
  /\ UNCHANGED <<mpayload, mauth, mquery>>
  /\ UNCHANGED <<route, request, pc, slot, posts, checks, http, handler_ran, user, served>>

awaited_reply_of_any(t) ==
  coro[CHOOSE u \in Tasks :
         /\ coro[u].reply # NoReply
         /\ \A v \in Tasks : coro[v].reply # NoReply => u <= v].reply

\* what `await self._client.post(...)` yields in coroutine t: the answer to
\* the request that t sent
awaited_reply(t) == coro[t].reply

\* the event loop resumes a coroutine whose answer has arrived: it runs from
\* the await to its end, with the shared dict as it is now
AsyncResume(t) ==
  /\ coro[t].pc = "awaiting"
  /\ coro[t].reply # NoReply
  /\ \E r \in {fetch_after_post(coro[t].token, cache_arg(t), awaited_reply(t),
                                 nobj + 1)} :
       /\ coro' = [coro EXCEPT ![t].pc = "done", ![t].outcome = r.outcome]
       /\ caller_cache' = IF coro[t].use_cache THEN r.cache.store
                           ELSE caller_cache
       /\ nobj' = IF r.outcome.kind = "return" THEN nobj + 1 ELSE nobj
  /\ UNCHANGED <<authz_client, last, check_calls, check_posts>>
  /\ UNCHANGED <<tin, tout, tpc>>
  /\ UNCHANGED <<mpayload, mauth, mquery>>
  /\ UNCHANGED <<route, request, pc, slot, posts, checks, http, handler_ran, user, served>>

NextAsync ==
  \E t \in Tasks : AsyncCall(t) \/ TransportReply(t) \/ AsyncResume(t)

InitAsyncModel == InitAsync /\ TokenIdle /\ AdapterIdle /\ PayloadIdle

SpecAsync == InitAsyncModel /\ [][NextAsync]_vars

(* ---------------------------------------------------------------------- *)
(* fastapi.py and flask.py                                                *)
(* ---------------------------------------------------------------------- *)
_get_cache_always_new(attr) == Cache(EmptyMap)

\* _get_cache: the dict kept on request.state (FastAPI) or flask.g, created
\* when the attribute is missing
_get_cache(attr) == IF attr.some THEN attr ELSE Cache(EmptyMap)

\* what a step of a route yields: http is 0 when the step returned, else
\* the status of the rejection
StepResult(status, attr, sent, answered, auth) ==
  [http |-> status, slot |-> attr, posts |-> sent, checks |-> answered,
   user |-> auth]

\* the status the framework answers with when a step raises exc that the
\* step does not catch
Uncaught(exc) == 500

current_user_dependency_no_401(client, req, attr, cookie_name, header_name, reply, id) ==
  LET token == discover_token(req.headers, req.cookies, cookie_name, header_name)
      cache == _get_cache(attr)
      r == fetch_effective_auth(client, token, cache, NoneStr, reply, id)
  IN IF r.outcome.kind = "raise"
       THEN StepResult(IF IsGoogleAuthzError(r.outcome.exc) THEN 502
                       ELSE Uncaught(r.outcome.exc),
                       r.cache, r.requests, <<>>, NoUser)
       ELSE StepResult(0, r.cache, r.requests, <<>>, r.outcome.value)

current_user_dependency_swallows(client, req, attr, cookie_name, header_name, reply, id) ==
  LET token == discover_token(req.headers, req.cookies, cookie_name, header_name)
  IN IF ~Truthy(token) THEN StepResult(401, attr, <<>>, <<>>, NoUser)
     ELSE
       LET cache == _get_cache(attr)
           r == fetch_effective_auth(client, token, cache, NoneStr, reply, id)
       IN IF r.outcome.kind = "raise"
            THEN StepResult(0, r.cache, r.requests, <<>>, NoUser)
            ELSE StepResult(0, r.cache, r.requests, <<>>, r.outcome.value)

\* fastapi.current_user: dependency
current_user_dependency(client, req, attr, cookie_name, header_name, reply, id) ==
  LET token == discover_token(req.headers, req.cookies, cookie_name, header_name)
  IN IF ~Truthy(token) THEN StepResult(401, attr, <<>>, <<>>, NoUser)
     ELSE
       LET cache == _get_cache(attr)
           r == fetch_effective_auth(client, token, cache, NoneStr, reply, id)
       IN IF r.outcome.kind = "raise"
            THEN StepResult(IF IsGoogleAuthzError(r.outcome.exc) THEN 502
                            ELSE Uncaught(r.outcome.exc),
                            r.cache, r.requests, <<>>, NoUser)
            ELSE StepResult(0, r.cache, r.requests, <<>>, r.outcome.value)

\* one answered permission check of a request
Answered(module, action, token, result) ==
  [module |-> module, action |-> action, token |-> token,
   allowed |-> result.allowed]

require_permission_dependency_ignores_result(client, module, action, req, attr, auth, cookie_name, header_name, reply) ==
  LET token == discover_token(req.headers, req.cookies, cookie_name, header_name)
  IN IF ~Truthy(token) THEN StepResult(401, attr, <<>>, <<>>, auth)
     ELSE
       LET r == check_permission(client, module, action, token, NoneStr, reply)
       IN IF r.outcome.kind = "raise"
            THEN StepResult(Uncaught(r.outcome.exc), attr, r.requests, <<>>, auth)
            ELSE StepResult(0, attr, r.requests,
                            <<Answered(module, action, token, r.outcome.value)>>,
                            auth)

\* fastapi.require_permission: dependency, entered with the auth that its
\* own current_user dependency returned
require_permission_dependency(client, module, action, req, attr, auth, cookie_name, header_name, reply) ==
  LET token == discover_token(req.headers, req.cookies, cookie_name, header_name)
  IN IF ~Truthy(token) THEN StepResult(401, attr, <<>>, <<>>, auth)
     ELSE
       LET r == check_permission(client, module, action, token, NoneStr, reply)
       IN IF r.outcome.kind = "raise"
            THEN StepResult(Uncaught(r.outcome.exc), attr, r.requests, <<>>, auth)
            ELSE IF ~r.outcome.value.allowed
              THEN StepResult(403, attr, r.requests,
                              <<Answered(module, action, token, r.outcome.value)>>,
                              auth)
              ELSE StepResult(0, attr, r.requests,
                              <<Answered(module, action, token, r.outcome.value)>>,
                              auth)

\* the loop of fastapi.any_of over permissions, from the i-th on: the first
\* allowed answer ends it; replies[i] answers the check of permissions[i]
RECURSIVE any_of_loop(_, _, _, _, _, _, _)
any_of_loop(client, permissions, token, replies, i, sent, answered) ==
  IF i > Len(permissions)
    THEN [http |-> 403, posts |-> sent, checks |-> answered]
  ELSE
    LET r == check_permission(client, permissions[i].module,
                              permissions[i].action, token, NoneStr, replies[i])
        now == answered \o <<Answered(permissions[i].module,
                                      permissions[i].action, token,
                                      r.outcome.value)>>
    IN IF r.outcome.kind = "raise"
         THEN [http |-> Uncaught(r.outcome.exc), posts |-> sent \o r.requests,
               checks |-> answered]
         ELSE IF r.outcome.value.allowed
           THEN [http |-> 0, posts |-> sent \o r.requests, checks |-> now]
           ELSE any_of_loop(client, permissions, token, replies, i + 1,
                            sent \o r.requests, now)

\* fastapi.any_of: dependency, entered with the auth that its own
\* current_user dependency returned
any_of_dependency(client, permissions, req, attr, auth, cookie_name, header_name, replies) ==
  LET token == discover_token(req.headers, req.cookies, cookie_name, header_name)
  IN IF ~Truthy(token) THEN StepResult(401, attr, <<>>, <<>>, auth)
     ELSE LET l == any_of_loop(client, permissions, token, replies, 1, <<>>, <<>>)
          IN StepResult(l.http, attr, l.posts, l.checks, auth)

\* the loop of fastapi.all_of over permissions, from the i-th on: the first
\* answer that is not allowed ends it
RECURSIVE all_of_loop(_, _, _, _, _, _, _)
all_of_loop(client, permissions, token, replies, i, sent, answered) ==
  IF i > Len(permissions)
    THEN [http |-> 0, posts |-> sent, checks |-> answered]
  ELSE
    LET r == check_permission(client, permissions[i].module,
                              permissions[i].action, token, NoneStr, replies[i])
        now == answered \o <<Answered(permissions[i].module,
                                      permissions[i].action, token,
                                      r.outcome.value)>>
    IN IF r.outcome.kind = "raise"
         THEN [http |-> Uncaught(r.outcome.exc), posts |-> sent \o r.requests,
               checks |-> answered]
         ELSE IF ~r.outcome.value.allowed
           THEN [http |-> 403, posts |-> sent \o r.requests, checks |-> now]
           ELSE all_of_loop(client, permissions, token, replies, i + 1,
                            sent \o r.requests, now)

\* fastapi.all_of: dependency
all_of_dependency(client, permissions, req, attr, auth, cookie_name, header_name, replies) ==
  LET token == discover_token(req.headers, req.cookies, cookie_name, header_name)
  IN IF ~Truthy(token) THEN StepResult(401, attr, <<>>, <<>>, auth)
     ELSE LET l == all_of_loop(client, permissions, token, replies, 1, <<>>, <<>>)
          IN StepResult(l.http, attr, l.posts, l.checks, auth)

\* django.GoogleAuthzMiddleware.__call__, up to get_response(request); the
\* cache is an attribute of the request object
GoogleAuthzMiddleware_call(client, req, attr, auth, cookie_name, header_name, reply, id) ==
  LET token == discover_token(req.headers, req.cookies, cookie_name, header_name)
  IN IF ~Truthy(token) THEN StepResult(0, attr, <<>>, <<>>, auth)
     ELSE
       LET cache == IF attr.some THEN attr ELSE Cache(EmptyMap)
           \* cache.get(token) or self.client.fetch_effective_auth(...)
           cached == token \in DOMAIN cache.store
           f == fetch_effective_auth(client, token, cache, NoneStr, reply, id)
       IN IF cached THEN StepResult(0, cache, <<>>, <<>>, cache.store[token])
          ELSE IF f.outcome.kind = "raise"
            THEN StepResult(Uncaught(f.outcome.exc), f.cache, f.requests,
                            <<>>, auth)
            ELSE StepResult(0, f.cache, f.requests, <<>>, f.outcome.value)

\* flask.register_current_user_middleware: _inject_current_user
_inject_current_user(client, req, attr, cookie_name, header_name, reply, id) ==
  LET token == discover_token(req.headers, req.cookies, cookie_name, header_name)
  IN IF ~Truthy(token) THEN StepResult(0, attr, <<>>, <<>>, NoUser)
     ELSE
       LET cache == _get_cache(attr)
           r == fetch_effective_auth(client, token, cache, NoneStr, reply, id)
       IN IF r.outcome.kind = "raise"
            THEN StepResult(Uncaught(r.outcome.exc), r.cache, r.requests,
                            <<>>, NoUser)
            ELSE StepResult(0, r.cache, r.requests, <<>>, r.outcome.value)

\* flask.require_permission: wrapper, up to the call of the view function;
\* http 0 means the view function is called
wrapper(client, module, action, req, attr, auth, cookie_name, header_name, check_reply, fetch_reply, id) ==
  LET token == discover_token(req.headers, req.cookies, cookie_name, header_name)
  IN IF ~Truthy(token) THEN StepResult(401, attr, <<>>, <<>>, auth)
     ELSE
       LET r == check_permission(client, module, action, token, NoneStr,
                                 check_reply)
           answered == <<Answered(module, action, token, r.outcome.value)>>
       IN IF r.outcome.kind = "raise"
            THEN StepResult(Uncaught(r.outcome.exc), attr, r.requests, <<>>, auth)
            ELSE IF ~r.outcome.value.allowed
              THEN StepResult(403, attr, r.requests, answered, auth)
              ELSE
                LET cache == _get_cache(attr)
                    \* cache.get(token) or client.fetch_effective_auth(...)
                    \* (an object in the cache is truthy)
                    cached == token \in DOMAIN cache.store
                    f == fetch_effective_auth(client, token, cache, NoneStr,
                                              fetch_reply, id)
                IN IF cached
                     THEN StepResult(0, cache, r.requests, answered,
                                     cache.store[token])
                     ELSE IF f.outcome.kind = "raise"
                       THEN StepResult(Uncaught(f.outcome.exc), f.cache,
                                       r.requests \o f.requests, answered, auth)
                       ELSE StepResult(0, f.cache, r.requests \o f.requests,
                                       answered, f.outcome.value)

(* ---------------------------------------------------------------------- *)
(* Inputs of the adapter model                                            *)
(* ---------------------------------------------------------------------- *)
BearerA == <<"B","e","a","r","e","r"," ","a">>

InboundHeaders ==
  { <<>>,
    <<[key |-> Authorization, value |-> BearerA]>>,
    <<[key |-> authorization, value |-> TokB]>>,
    <<[key |-> Authorization, value |-> <<" ">>]>>,
    <<[key |-> x_token, value |-> BearerA]>> }

InboundCookies == { EmptyMap, "session" :> TokA, "session" :> <<>> }

\* the steps a framework runs for a route before the view function:
\* the FastAPI routes depend on current_user, on require_permission (which
\* depends on a current_user dependency of its own), or on both; the Flask
\* routes are decorated with require_permission, with or without the
\* before_request middleware
RouteSteps ==
  { <<"current_user">>,
    <<"current_user", "require_permission">>,
    <<"current_user", "current_user", "require_permission">>,
    <<"current_user", "any_of">>,
    <<"current_user", "all_of">>,
    <<"wrapper">>,
    <<"_inject_current_user", "wrapper">>,
    <<"GoogleAuthzMiddleware">> }

\* the permissions any_of and all_of are given
PermissionLists ==
  { <<[module |-> "inventory", action |-> "read"],
      [module |-> "orders", action |-> "write"]>> }

Routes ==
  [steps : RouteSteps, module : {"inventory"}, action : {"read", "create"},
   permissions : PermissionLists,
   cookie_name : {"session"}, header_name : {authorization, x_token}]

InboundRequests == [headers : InboundHeaders, cookies : InboundCookies]

(* ---------------------------------------------------------------------- *)
(* The adapter model: one inbound request goes through the steps of its   *)
(* route                                                                  *)
(* ---------------------------------------------------------------------- *)
InitAdapter ==
  /\ authz_client \in Clients
  /\ route \in Routes
  /\ request \in InboundRequests
  /\ pc = 1
  /\ slot = NoCache
  /\ posts = <<>>
  /\ checks = <<>>
  /\ http = 0
  /\ handler_ran = FALSE
  /\ user = NoUser
  /\ served = <<>>
  /\ nobj = 0
  /\ caller_cache = EmptyMap /\ last = NoCall
  /\ check_calls = 0 /\ check_posts = 0

\* the token the adapters discover for the inbound request
DiscoveredToken ==
  discover_token(request.headers, request.cookies, route.cookie_name,
                 route.header_name)

Pending(step) ==
  /\ http = 0
  /\ pc <= Len(route.steps)
  /\ route.steps[pc] = step

\* the state after a step that yielded r; ran tells whether the step called
\* the view function
Apply(r, ran) ==
  /\ slot' = r.slot
  /\ posts' = posts \o r.posts
  /\ checks' = checks \o r.checks
  /\ user' = r.user
  /\ nobj' = nobj + Cardinality({ i \in 1..Len(r.posts) :
                                    r.posts[i].path = "/authz" /\ r.http = 0 })
  /\ pc' = pc + 1
  /\ handler_ran' = (ran /\ r.http = 0)
  /\ http' = IF ran /\ r.http = 0 THEN 200 ELSE r.http
  /\ UNCHANGED <<authz_client, route, request, served>>
  /\ UNCHANGED <<caller_cache, last, check_calls, check_posts>>
  /\ UNCHANGED <<tin, tout, tpc>>
  /\ UNCHANGED <<mpayload, mauth, mquery>>
  /\ UNCHANGED coro

FastapiCurrentUser ==
  /\ Pending("current_user")
  /\ \E reply \in AuthzReplies :
       \E r \in {current_user_dependency(authz_client, request, slot,
                                     route.cookie_name, route.header_name,
                                     reply, nobj + 1)} :
         Apply(r, FALSE)

FastapiRequirePermission ==
  /\ Pending("require_permission")
  /\ \E reply \in CheckReplies :
       \E r \in {require_permission_dependency(authz_client, route.module,
                                           route.action, request, slot, user,
                                           route.cookie_name,
                                           route.header_name, reply)} :
         Apply(r, FALSE)

\* FastAPI calls the view function once every dependency has returned
FastapiEndpoint ==
  /\ http = 0
  /\ pc > Len(route.steps)
  /\ handler_ran' = TRUE
  /\ http' = 200
  /\ UNCHANGED <<authz_client, route, request, pc, slot, posts, checks, user, served>>
  /\ UNCHANGED <<caller_cache, last, nobj, check_calls, check_posts>>
  /\ UNCHANGED <<tin, tout, tpc>>
  /\ UNCHANGED <<mpayload, mauth, mquery>>
  /\ UNCHANGED coro

FlaskBeforeRequest ==
  /\ Pending("_inject_current_user")
  /\ \E reply \in AuthzReplies :
       \E r \in {_inject_current_user(authz_client, request, slot,
                                  route.cookie_name, route.header_name,
                                  reply, nobj + 1)} :
         Apply(r, FALSE)

\* the decorated Flask view: the wrapper and, when it gets that far, the
\* view function it calls
FlaskView ==
  /\ Pending("wrapper")
  /\ \E check_reply \in CheckReplies, fetch_reply \in AuthzReplies :
       \E r \in {wrapper(authz_client, route.module, route.action, request, slot,
                     user, route.cookie_name, route.header_name, check_reply,
                     fetch_reply, nobj + 1)} :
         Apply(r, TRUE)

\* the answers to the checks of a list of permissions
ReplyLists(permissions) == [1..Len(permissions) -> CheckReplies]

FastapiAnyOf ==
  /\ Pending("any_of")
  /\ \E replies \in ReplyLists(route.permissions) :
       \E r \in {any_of_dependency(authz_client, route.permissions, request, slot,
                               user, route.cookie_name, route.header_name,
                               replies)} :
         Apply(r, FALSE)

FastapiAllOf ==
  /\ Pending("all_of")
  /\ \E replies \in ReplyLists(route.permissions) :
       \E r \in {all_of_dependency(authz_client, route.permissions, request, slot,
                               user, route.cookie_name, route.header_name,
                               replies)} :
         Apply(r, FALSE)

\* the Django middleware and, through get_response, the view
DjangoMiddleware ==
  /\ Pending("GoogleAuthzMiddleware")
  /\ \E reply \in AuthzReplies :
       \E r \in {GoogleAuthzMiddleware_call(authz_client, request, slot, user,
                                        route.cookie_name, route.header_name,
                                        reply, nobj + 1)} :
         Apply(r, TRUE)

new_request_state_shared == slot

\* the cache attribute of a new inbound request: request.state, flask.g and
\* the Django request object are new for each request, so getattr(...,
\* "_google_authz_cache", None) finds nothing
new_request_state == NoCache

\* the request is answered and the application gets the next one, for the
\* same route and with the same long-lived client
NewRequest ==
  /\ http # 0
  /\ Len(served) + 1 < MaxRequests
  /\ served' = Append(served, [token |-> DiscoveredToken,
                                resolved |-> DiscoveredToken \in DOMAIN slot.store,
                                objects |-> nobj])
  /\ request' \in InboundRequests
  /\ pc' = 1
  /\ slot' = new_request_state
  /\ posts' = <<>>
  /\ checks' = <<>>
  /\ http' = 0
  /\ handler_ran' = FALSE
  /\ user' = NoUser
  /\ UNCHANGED <<authz_client, route, nobj>>
  /\ UNCHANGED <<caller_cache, last, check_calls, check_posts>>
  /\ UNCHANGED <<tin, tout, tpc>>
  /\ UNCHANGED <<mpayload, mauth, mquery>>
  /\ UNCHANGED coro

NextAdapter ==
  \/ FastapiCurrentUser
  \/ FastapiRequirePermission
  \/ FastapiAnyOf
  \/ FastapiAllOf
  \/ FastapiEndpoint
  \/ FlaskBeforeRequest
  \/ FlaskView
  \/ DjangoMiddleware
  \/ NewRequest

InitAdapterModel == InitAdapter /\ TokenIdle /\ ModelsIdle

SpecAdapter == InitAdapterModel /\ [][NextAdapter]_vars

(* ---------------------------------------------------------------------- *)
(* Properties of the client model                                         *)
(* ---------------------------------------------------------------------- *)
Is2xx(reply) ==
  reply.kind = "response" /\ reply.status >= 200 /\ reply.status <= 299

\* the last call was a fetch_effective_auth with a non-empty token and a
\* cache that held an EffectiveAuth under that token
FetchFoundCached ==
  /\ last.op = "fetch"
  /\ Truthy(last.token)
  /\ last.use_cache
  /\ last.token \in DOMAIN last.cache_before
  /\ last.cache_before[last.token].cls = "EffectiveAuth"

C1_Hit ==
  FetchFoundCached =>
    /\ last.outcome = Return(last.cache_before[last.token])
    /\ last.requests = <<>>

C1_Successive ==
  ( /\ last.op = "fetch" /\ last.use_cache /\ Truthy(last.token)
    /\ last.outcome.kind = "return"
    /\ last'.op = "fetch" /\ last'.use_cache /\ last'.token = last.token )
  => ( /\ last'.outcome = last.outcome
       /\ last'.requests = <<>>
       /\ Len(last.requests) <= 1 )

\* C1: fetch_effective_auth with a non-empty token T and a cache holding an
\* EffectiveAuth under T returns that very object and sends no request,
\* whatever the token-type override; and a fetch that follows a fetch that
\* returned, with the same token and the same cache, sends nothing and
\* returns the identical object (so the two send at most the one POST of
\* the first).
C1_CachedFetchSendsNothing == [][C1_Successive]_vars /\ []C1_Hit

\* a hit on an object the client itself created and stored in an earlier
\* fetch, found in spite of a token-type override
C1_Witness ==
  /\ FetchFoundCached
  /\ last.token_type = "session_token"
  /\ last.outcome.kind = "return"
  /\ last.outcome.value.id >= 1
  /\ last.requests = <<>>

\* C4: fetch_effective_auth and check_permission with an empty or absent
\* token raise MissingCredentialsError and send no request, for every cache
\* and every token-type override.
C4_MissingCredentialsFirst ==
  (last.op \in {"fetch", "check"} /\ ~Truthy(last.token)) =>
    /\ last.outcome = Raise("MissingCredentialsError")
    /\ last.requests = <<>>

\* C5: a non-2xx answer makes the call raise GoogleAuthzError, nothing is
\* returned, and exactly one request was sent for the call.
C5_Non2xxRaises ==
  (last.op \in {"fetch", "check"} /\ last.reply.kind = "response"
     /\ ~Is2xx(last.reply)) =>
    /\ last.outcome = Raise("GoogleAuthzError")
    /\ Len(last.requests) = 1
    /\ last.requests[1].path = (IF last.op = "fetch" THEN "/authz"
                                ELSE "/authz/check")

\* a 500 answer to POST /authz whose body would parse to an EffectiveAuth
C5_Witness ==
  /\ last.op = "fetch"
  /\ last.reply = Response(500, AlicePayload)
  /\ last.outcome = Raise("GoogleAuthzError")
  /\ Len(last.requests) = 1

TransportFailure(reply) ==
  \/ reply.kind = "error"
  \/ Is2xx(reply) /\ reply.body.t = "malformed"

\* C6: every transport-level failure (connection error, timeout, a 2xx
\* answer whose body is not JSON) surfaces as GoogleAuthzError and as no
\* other kind of error.
C6_TransportFailureIsGoogleAuthzError ==
  (last.op \in {"fetch", "check"} /\ TransportFailure(last.reply)) =>
    /\ last.outcome.kind = "raise"
    /\ last.outcome.exc = "GoogleAuthzError"

\* the last call was a check_permission with a non-empty token and a
\* resolved token type that is one of the three
UsableCheck ==
  /\ last.op = "check"
  /\ Truthy(last.token)
  /\ last.token_type \in TOKEN_TYPES \cup {NoneStr}

ResolvedType ==
  IF last.token_type = NoneStr THEN authz_client.token_type
  ELSE last.token_type

\* C9: check_permission(m, a, t) sends one POST /authz/check whose JSON body
\* has exactly the keys module = m, action = a and k = t for the resolved
\* token type k; a 2xx JSON object is parsed to a PermissionCheckResult whose
\* allowed is the truth value of the allowed field (false when absent) and
\* whose permitted_actions is the field's list (empty when the field is
\* absent, a string or not iterable).
C9_CheckBodyAndResult ==
  UsableCheck =>
    /\ Len(last.requests) = 1
    /\ last.requests[1].method = "POST"
    /\ last.requests[1].path = "/authz/check"
    /\ DOMAIN last.requests[1].json = {"module", "action", ResolvedType}
    /\ last.requests[1].json["module"] = last.module
    /\ last.requests[1].json["action"] = last.action
    /\ last.requests[1].json[ResolvedType] = last.token
    /\ (Is2xx(last.reply) /\ last.reply.body.t = "obj") =>
         LET body == last.reply.body.m
             result == last.outcome.value
         IN /\ last.outcome.kind = "return"
            /\ result.cls = "PermissionCheckResult"
            /\ "allowed" \notin DOMAIN body => result.allowed = FALSE
            /\ "allowed" \in DOMAIN body =>
                 result.allowed = JTruthy(body["allowed"])
            /\ "permitted_actions" \notin DOMAIN body =>
                 result.permitted_actions = <<>>
            /\ "permitted_actions" \in DOMAIN body =>
                 result.permitted_actions =
                   (IF body["permitted_actions"].t = "list"
                      THEN body["permitted_actions"].items ELSE <<>>)

\* the example of the specification: default token type id_token,
\* inventory/read, answered {"allowed": true, "permitted_actions": ["read"]}
C9_Witness ==
  /\ UsableCheck
  /\ last.token_type = NoneStr /\ authz_client.token_type = "id_token"
  /\ last.requests[1].json =
       (("module" :> "inventory") @@ ("action" :> "read") @@
        ("id_token" :> TokA))
  /\ last.outcome =
       Return(PermissionCheckResult(TRUE, <<JStr("read")>>))

\* a string in permitted_actions is dropped
C9_WitnessString ==
  /\ UsableCheck
  /\ Is2xx(last.reply) /\ last.reply.body.t = "obj"
  /\ "permitted_actions" \in DOMAIN last.reply.body.m
  /\ last.reply.body.m["permitted_actions"].t = "str"
  /\ last.outcome.value.permitted_actions = <<>>

\* C10: check_permission never caches: each call with a non-empty token and
\* a valid token type sends its own POST /authz/check, whatever calls came
\* before and whatever the cache holds, so n calls send n requests, and a
\* 2xx JSON object answer decides the result of the call it answers.
C10_EveryCheckPosts ==
  /\ check_posts = check_calls
  /\ UsableCheck =>
       /\ Len(last.requests) = 1
       /\ last.requests[1].path = "/authz/check"
       /\ (Is2xx(last.reply) /\ last.reply.body.t = "obj") =>
            /\ last.outcome.kind = "return"
            /\ last.outcome.value.allowed =
                 JTruthy(JGet(last.reply.body, "allowed"))

\* the second check of a run, made for a token whose EffectiveAuth is in
\* the cache, still posts
C10_Witness ==
  /\ UsableCheck
  /\ check_calls = 2 /\ check_posts = 2
  /\ last.token \in DOMAIN caller_cache
  /\ caller_cache[last.token].cls = "EffectiveAuth"
  /\ Len(last.requests) = 1

\* C11: the token type of a request body is the per-call override when one
\* is given and the client's default otherwise; no client exists whose
\* default is outside {id_token, session_token, access_token}; and every
\* fetch_effective_auth or check_permission call with a non-empty token whose
\* resolved token type is outside that set raises ValueError and sends no
\* request, whatever the cache holds.
C11_ResolvedTokenType ==
  /\ authz_client.token_type \in TOKEN_TYPES
  /\ \A config \in ClientConfigs :
       config.token_type \notin TOKEN_TYPES =>
         _BaseClient_init(config) = Raise("ValueError")
  /\ (last.op \in {"fetch", "check"} /\ Truthy(last.token)) =>
       /\ \A i \in 1..Len(last.requests) :
            /\ ResolvedType \in TOKEN_TYPES
            /\ ResolvedType \in DOMAIN last.requests[i].json
            /\ last.requests[i].json[ResolvedType] = last.token
       /\ ResolvedType \notin TOKEN_TYPES =>
            /\ last.outcome = Raise("ValueError")
            /\ last.requests = <<>>

\* the last call was a fetch_effective_auth, with a cache, that went to the
\* network and returned
FetchedAndStored ==
  /\ last.op = "fetch"
  /\ last.use_cache
  /\ last.requests # <<>>
  /\ last.outcome.kind = "return"

\* C14: after a fetch_effective_auth(T, cache) that went to the network and
\* returned, the cache maps T to exactly the returned EffectiveAuth (also
\* when the cache was empty before the call) and the entries under every
\* other token are as before; no fetch_effective_auth or check_permission
\* removes an entry, so the key set of the cache only grows.
C14_StoredUnderToken ==
  last.op \in {"fetch", "check"} =>
    /\ DOMAIN last.cache_before \subseteq DOMAIN caller_cache
    /\ FetchedAndStored =>
         /\ last.token \in DOMAIN caller_cache
         /\ caller_cache[last.token] = last.outcome.value
         /\ DOMAIN caller_cache = DOMAIN last.cache_before \cup {last.token}
         /\ \A k \in DOMAIN last.cache_before :
              k # last.token => caller_cache[k] = last.cache_before[k]
    /\ ~FetchedAndStored => caller_cache = last.cache_before

\* a fetch that went to the network filled a cache that was empty
C14_Witness ==
  /\ FetchedAndStored
  /\ last.cache_before = EmptyMap
  /\ caller_cache = (last.token :> last.outcome.value)

\* a fetch for another token kept the entry that was there
C14_WitnessOtherEntry ==
  /\ FetchedAndStored
  /\ last.token = TokB
  /\ last.cache_before = (TokA :> Preloaded)
  /\ caller_cache = (TokA :> Preloaded) @@ (TokB :> last.outcome.value)

\* the tokens whose entry the last call wrote
Written ==
  { T \in DOMAIN caller_cache :
      T \notin DOMAIN last.cache_before
        \/ caller_cache[T] # last.cache_before[T] }

\* C18: a fetch_effective_auth that raises, for whatever reason, leaves the
\* supplied cache as it was before the call; an entry is written under T
\* only by a fetch for T that sent POST /authz with T and got a 2xx answer,
\* and the entry is the EffectiveAuth parsed from that answer; hence every
\* entry the client has written is an EffectiveAuth parsed from a 2xx
\* /authz response body.
C18_FailedFetchKeepsCache ==
  /\ last.op = "fetch" =>
       /\ last.outcome.kind = "raise" => caller_cache = last.cache_before
       /\ \A T \in Written :
            /\ last.token = T
            /\ Len(last.requests) = 1
            /\ last.requests[1].path = "/authz"
            /\ last.requests[1].headers["Authorization"] = BearerSpace \o T
            /\ \E k \in DOMAIN last.requests[1].json :
                 last.requests[1].json[k] = T
            /\ Is2xx(last.reply)
            /\ _effective_auth_from_payload(last.reply.body, caller_cache[T].id)
                 = Return(caller_cache[T])
  /\ \A T \in DOMAIN caller_cache :
       (caller_cache[T].cls = "EffectiveAuth" /\ caller_cache[T].id >= 1) =>
         \E reply \in AuthzReplies :
           /\ Is2xx(reply)
           /\ _effective_auth_from_payload(reply.body, caller_cache[T].id)
                = Return(caller_cache[T])

\* a fetch that sent its request and failed on a non-2xx answer left the
\* entries of the cache alone
C18_Witness ==
  /\ last.op = "fetch" /\ last.use_cache
  /\ last.requests # <<>>
  /\ last.reply.kind = "response" /\ ~Is2xx(last.reply)
  /\ last.outcome.kind = "raise"
  /\ last.cache_before # EmptyMap
  /\ caller_cache = last.cache_before

\* the cache holds an entry the client wrote in an earlier call, and the
\* last fetch for that token failed
C18_WitnessWritten ==
  /\ last.op = "fetch" /\ last.use_cache /\ last.outcome.kind = "raise"
  /\ \E T \in DOMAIN caller_cache :
       caller_cache[T].cls = "EffectiveAuth" /\ caller_cache[T].id >= 1

(* ---------------------------------------------------------------------- *)
(* Properties of the payload model                                        *)
(* ---------------------------------------------------------------------- *)
\* P.permissions when it is a JSON object, else no module at all
PayloadPermissions ==
  IF /\ "permissions" \in DOMAIN mpayload.m
     /\ mpayload.m["permissions"].t = "obj"
    THEN mpayload.m["permissions"].m ELSE EmptyMap

\* the array holds the string a
HoldsString(v, a) ==
  \E i \in 1..Len(v.items) : v.items[i].t = "str" /\ v.items[i].s = a

\* the array holds an element that str() turns into a
HoldsAsString(v, a) ==
  \E i \in 1..Len(v.items) : PyStr(v.items[i]) = a

\* C12 as claimed: for every payload P from which an EffectiveAuth is built,
\* allows(m, a) is true exactly when P.permissions[m] is an array containing
\* a or "*", or is the single string a or "*"; a module that is missing or
\* has a value of another shape allows nothing.
C12_AllowsExactly ==
  mquery.asked =>
    LET m == mquery.module
        a == mquery.action
        granted ==
          /\ m \in DOMAIN PayloadPermissions
          /\ \/ /\ PayloadPermissions[m].t = "list"
                /\ (HoldsString(PayloadPermissions[m], a)
                      \/ HoldsString(PayloadPermissions[m], "*"))
             \/ /\ PayloadPermissions[m].t = "str"
                /\ PayloadPermissions[m].s \in {a, "*"}
    IN mquery.result = granted

\* C12 (amended): for every payload P from which an EffectiveAuth is built,
\* allows(m, a) is true exactly when P.permissions[m] is an array with an
\* element whose str() is a or "*", or is the single string a or "*"; a
\* module that is missing or has a value of another shape allows nothing,
\* so permissions {m: ["*"]} allow every action on m and none elsewhere.
C12_AllowsByStringForm ==
  mquery.asked =>
    LET m == mquery.module
        a == mquery.action
        granted ==
          /\ m \in DOMAIN PayloadPermissions
          /\ \/ /\ PayloadPermissions[m].t = "list"
                /\ (HoldsAsString(PayloadPermissions[m], a)
                      \/ HoldsAsString(PayloadPermissions[m], "*"))
             \/ /\ PayloadPermissions[m].t = "str"
                /\ PayloadPermissions[m].s \in {a, "*"}
    IN mquery.result = granted

\* the wildcard array allows an action on its module that no payload names
C12_Witness ==
  /\ mquery.asked
  /\ PayloadPermissions = ("inventory" :> JList(<<JStr("*")>>))
  /\ mquery.module = "inventory" /\ mquery.action = "delete"
  /\ mquery.result

\* the wildcard of one module allows nothing on another module whose
\* value is of another shape
C12_WitnessOtherModule ==
  /\ mquery.asked
  /\ PayloadPermissions =
       ("inventory" :> JList(<<JStr("*")>>)) @@ ("orders" :> JNum(5))
  /\ mquery.module = "orders" /\ mquery.action = "read"
  /\ ~mquery.result

(* ---------------------------------------------------------------------- *)
(* Properties of the scoped-cache model                                   *)
(* ---------------------------------------------------------------------- *)
\* C13: a RequestScopedCache works as the cache of fetch_effective_auth:
\* for a non-empty token T stored with set(T, auth) the fetch returns auth
\* and sends nothing; a fetch for a token that is not stored (never set, or
\* removed by clear()) sends one POST /authz, and when it returns, get(T)
\* yields the EffectiveAuth it returned.
C13_ScopedCacheServesFetch ==
  (last.op = "fetch" /\ Truthy(last.token)
     /\ last.token_type \in TOKEN_TYPES \cup {NoneStr}) =>
    IF last.token \in DOMAIN last.cache_before
      THEN /\ last.outcome = Return(last.cache_before[last.token])
           /\ last.requests = <<>>
      ELSE /\ Len(last.requests) = 1
           /\ last.outcome.kind = "return" =>
                scoped_get(caller_cache, last.token) =
                  [found |-> TRUE, value |-> last.outcome.value]

(* ---------------------------------------------------------------------- *)
(* Properties of the asynchronous model                                   *)
(* ---------------------------------------------------------------------- *)
\* v is the EffectiveAuth parsed from the service's answer for token T
Derives(v, T) ==
  /\ v.cls = "EffectiveAuth"
  /\ _effective_auth_from_payload(ServerPayload(T), v.id) = Return(v)

\* the call of task t went to the network
Networked(t) == coro[t].request # NoRequest

Returned(t) == coro[t].pc = "done" /\ coro[t].outcome.kind = "return"

\* C19: in every interleaving of concurrent asynchronous
\* fetch_effective_auth calls on one shared client, which suspend only at
\* the post, each call sends its request for its own token and returns the
\* EffectiveAuth parsed from the 2xx answer to that request, or the value
\* cached under its own token; every entry of the shared cache under T
\* derives from an answer for T, and entries under different tokens are
\* different objects (the dict has one entry per token).
C19_CallsIndependent ==
  /\ \A t \in Tasks :
       /\ Networked(t) =>
            /\ body_token(coro[t].request) = coro[t].token
            /\ coro[t].request.headers["Authorization"] =
                 BearerSpace \o coro[t].token
       /\ Returned(t) =>
            /\ Derives(coro[t].outcome.value, coro[t].token)
            /\ Networked(t) =>
                 /\ Is2xx(coro[t].reply)
                 /\ coro[t].reply \in ServerReplies(coro[t].request)
                 /\ _effective_auth_from_payload(coro[t].reply.body,
                                                 coro[t].outcome.value.id)
                      = coro[t].outcome
            /\ ~Networked(t) => coro[t].use_cache
  /\ \A T \in DOMAIN caller_cache : Derives(caller_cache[T], T)
  /\ \A T, U \in DOMAIN caller_cache :
       T # U => caller_cache[T].id # caller_cache[U].id

\* two calls for different tokens, both sent to the network and both
\* returned, with both results in the shared cache
C19_Witness ==
  /\ Returned(1) /\ Returned(2)
  /\ Networked(1) /\ Networked(2)
  /\ coro[1].token = TokA /\ coro[2].token = TokB
  /\ coro[1].use_cache /\ coro[2].use_cache
  /\ coro[1].outcome.value.id = 2
  /\ DOMAIN caller_cache = {TokA, TokB}

\* two overlapping calls for the same token: both missed the shared cache,
\* both sent a request, and the cache holds the one entry written last
C19_WitnessSameToken ==
  /\ Returned(1) /\ Returned(2)
  /\ Networked(1) /\ Networked(2)
  /\ coro[1].token = TokA /\ coro[2].token = TokA
  /\ coro[1].use_cache /\ coro[2].use_cache
  /\ DOMAIN caller_cache = {TokA}
  /\ caller_cache[TokA].id = 2

(* ---------------------------------------------------------------------- *)
(* Properties of the adapter model                                        *)
(* ---------------------------------------------------------------------- *)
\* the route is protected by require_permission (FastAPI or Flask)
RequiresPermission ==
  \E i \in 1..Len(route.steps) :
    route.steps[i] \in {"require_permission", "wrapper"}

\* the route runs a FastAPI dependency or the Flask decorator
HasRejectingStep ==
  \E i \in 1..Len(route.steps) : route.steps[i] \in {"current_user", "wrapper"}

\* the first step of the route that rejects a request without a token
RejectingStep ==
  CHOOSE i \in 1..Len(route.steps) :
    /\ route.steps[i] \in {"current_user", "wrapper"}
    /\ \A j \in 1..(i - 1) : route.steps[j] \notin {"current_user", "wrapper"}

\* C2: behind require_permission the view function runs in a request only
\* if a token was discovered and a check_permission for the route's module
\* and action with that token answered allowed = true in that request; when
\* a check answers allowed = false the request is rejected with 403 and the
\* view function does not run.
C2_HandlerOnlyIfAllowed ==
  /\ (handler_ran /\ RequiresPermission) =>
       /\ Truthy(DiscoveredToken)
       /\ \E i \in 1..Len(checks) :
            checks[i] = [module |-> route.module, action |-> route.action,
                         token |-> DiscoveredToken, allowed |-> TRUE]
       /\ \E i \in 1..Len(posts) :
            /\ posts[i].path = "/authz/check"
            /\ posts[i].json["module"] = route.module
            /\ posts[i].json["action"] = route.action
  /\ (RequiresPermission /\ \E i \in 1..Len(checks) : ~checks[i].allowed) =>
       /\ http = 403
       /\ ~handler_ran

\* the FastAPI view function ran behind current_user and require_permission
C2_Witness ==
  /\ handler_ran
  /\ route.steps = <<"current_user", "current_user", "require_permission">>
  /\ Len(checks) = 1 /\ checks[1].allowed
  /\ http = 200

\* the Flask wrapper rejected a request whose check was denied
C2_WitnessDenied ==
  /\ route.steps = <<"_inject_current_user", "wrapper">>
  /\ Len(checks) = 1 /\ ~checks[1].allowed
  /\ http = 403 /\ ~handler_ran

\* C3: when token discovery yields no token, the FastAPI current_user and
\* require_permission dependencies and the Flask decorator reject the
\* request with 401, the view function does not run, and nothing is sent
\* to the remote service while the request is handled.
C3_NoTokenRejected ==
  (HasRejectingStep /\ ~Truthy(DiscoveredToken)) =>
    /\ posts = <<>>
    /\ checks = <<>>
    /\ ~handler_ran
    /\ http \in {0, 401}
    /\ http = 0 => pc <= RejectingStep
    /\ http = 401 => pc = RejectingStep + 1

\* a request with a header that yields no token, rejected by the Flask
\* decorator after the middleware let it pass
C3_Witness ==
  /\ ~Truthy(DiscoveredToken)
  /\ request.headers # <<>>
  /\ route.steps = <<"_inject_current_user", "wrapper">>
  /\ http = 401
  /\ posts = <<>>

\* a request without a token rejected by FastAPI's current_user
C3_WitnessFastapi ==
  /\ ~Truthy(DiscoveredToken)
  /\ route.steps[1] = "current_user"
  /\ http = 401 /\ pc = 2

\* the POST /authz sent while the request is handled
AuthzPosts == { i \in 1..Len(posts) : posts[i].path = "/authz" }

\* the steps of the route done so far that resolve the user
ResolvingSteps ==
  { i \in 1..(pc - 1) :
      /\ i <= Len(route.steps)
      /\ route.steps[i] \in {"current_user", "_inject_current_user", "wrapper",
                              "GoogleAuthzMiddleware"} }

\* C15: while one inbound request carrying token T is handled, at most one
\* POST /authz is sent, and it is sent for T, however many steps of the
\* route resolve the user (the Flask middleware and then the decorator; the
\* FastAPI current_user dependencies of the route and of require_permission);
\* the user a step resolves is the EffectiveAuth that the one fetch stored
\* in the request's cache.
C15_OneFetchPerRequest ==
  /\ Cardinality(AuthzPosts) <= 1
  /\ \A i \in AuthzPosts :
       posts[i].headers["Authorization"] = BearerSpace \o DiscoveredToken
  /\ user.cls = "EffectiveAuth" =>
       /\ DiscoveredToken \in DOMAIN slot.store
       /\ slot.store[DiscoveredToken] = user
       /\ Cardinality(AuthzPosts) = 1

\* two current_user dependencies of a FastAPI route have run and one POST
\* /authz was sent
C15_Witness ==
  /\ route.steps = <<"current_user", "current_user", "require_permission">>
  /\ pc >= 3
  /\ http = 0
  /\ user.cls = "EffectiveAuth"
  /\ Cardinality(AuthzPosts) = 1

\* the Flask decorator ran the view after the middleware had resolved the
\* user, with one POST /authz between them
C15_WitnessFlask ==
  /\ route.steps = <<"_inject_current_user", "wrapper">>
  /\ handler_ran
  /\ Cardinality(ResolvingSteps) = 2
  /\ user.cls = "EffectiveAuth"
  /\ Cardinality(AuthzPosts) = 1

\* the number of EffectiveAuth objects that existed when the request came in
ObjectsBefore == IF served = <<>> THEN 0 ELSE served[Len(served)].objects

\* C16: the per-request cache is not shared across inbound requests: the
\* cache of a request holds no EffectiveAuth created while an earlier
\* request was handled, the user resolved for a request is an object created
\* while that request is handled, and a POST /authz with the request's token
\* was sent while it is handled, also when an earlier request resolved the
\* same token with the same long-lived client.
C16_NoHitAcrossRequests ==
  /\ \A T \in DOMAIN slot.store : slot.store[T].id > ObjectsBefore
  /\ user.cls = "EffectiveAuth" =>
       /\ user.id > ObjectsBefore
       /\ \E i \in AuthzPosts :
            posts[i].headers["Authorization"] = BearerSpace \o DiscoveredToken

\* the second request carries the token that the first request resolved,
\* and its user comes from a POST /authz of its own
C16_Witness ==
  /\ Len(served) = 1
  /\ served[1].resolved
  /\ served[1].token = DiscoveredToken
  /\ user.cls = "EffectiveAuth"
  /\ user.id = 2
  /\ Cardinality(AuthzPosts) = 1

\* the route runs FastAPI dependencies only
FastapiRoute ==
  \A i \in 1..Len(route.steps) :
    route.steps[i] \in {"current_user", "require_permission", "any_of", "all_of"}

\* the POST /authz/check sent while the request is handled
CheckPosts == { i \in 1..Len(posts) : posts[i].path = "/authz/check" }

\* the fetch of the request's user completed and stored its EffectiveAuth
FetchCompleted ==
  /\ DiscoveredToken \in DOMAIN slot.store
  /\ slot.store[DiscoveredToken].cls = "EffectiveAuth"

\* C17: behind the FastAPI dependencies require_permission, any_of and
\* all_of, a POST /authz/check is sent in a request only after the POST
\* /authz of that request, and only when fetch_effective_auth for the
\* request's token returned in that request; when that fetch fails the
\* request is rejected, no permission check is sent and the view function
\* does not run.
C17_CheckOnlyAfterFetch ==
  FastapiRoute =>
    /\ \A i \in CheckPosts :
         /\ FetchCompleted
         /\ \E j \in AuthzPosts : j < i
    /\ (AuthzPosts # {} /\ ~FetchCompleted) =>
         /\ http >= 400
         /\ CheckPosts = {}
         /\ checks = <<>>
         /\ ~handler_ran

\* any_of sent its two checks after the fetch and the view function ran
C17_Witness ==
  /\ route.steps = <<"current_user", "any_of">>
  /\ Cardinality(CheckPosts) = 2
  /\ Cardinality(AuthzPosts) = 1
  /\ handler_ran

\* the fetch of a route behind all_of failed and the request was rejected
C17_WitnessFailed ==
  /\ route.steps = <<"current_user", "all_of">>
  /\ AuthzPosts # {} /\ ~FetchCompleted
  /\ http = 502
  /\ CheckPosts = {}

(* ---------------------------------------------------------------------- *)
(* Properties of the token model                                          *)
(* ---------------------------------------------------------------------- *)
DiscoverDone == tpc = "done" /\ tin.op = "discover"

CookiePresent == tin.cookie_name \in DOMAIN tin.cookies

HeaderPresent ==
  \E i \in 1..Len(tin.headers) :
    Lower(tin.headers[i].key) = Lower(tin.header_name)

\* C7 as claimed: whenever a cookie under cookie_name and a header matching
\* header_name are both present, discover_token returns the cookie value and
\* does not consult the header: a header that is there is consulted only
\* when the cookie is not present.
C7_PresentCookieWins ==
  DiscoverDone =>
    /\ (CookiePresent /\ HeaderPresent) =>
         /\ tout.ret = tin.cookies[tin.cookie_name]
         /\ tout.extract_calls = <<>>
    /\ (HeaderPresent /\ tout.extract_calls # <<>>) => ~CookiePresent

\* C7 (amended): whenever a non-empty cookie under cookie_name and a header
\* matching header_name (case-insensitively) are both present, discover_token
\* returns the cookie value unmodified and does not consult the header; the
\* header is consulted, through extract_bearer_token, only when the cookie is
\* absent or empty.
C7_NonEmptyCookieWins ==
  DiscoverDone =>
    /\ (CookiePresent /\ tin.cookies[tin.cookie_name] # <<>>) =>
         /\ tout.ret = tin.cookies[tin.cookie_name]
         /\ tout.extract_calls = <<>>
    /\ tout.extract_calls # <<>> =>
         (~CookiePresent \/ tin.cookies[tin.cookie_name] = <<>>)

\* a non-empty cookie wins over a header, written in another letter case
\* than header_name, that carries a different token
C7_Witness ==
  /\ DiscoverDone
  /\ CookiePresent /\ tin.cookies[tin.cookie_name] = <<"c">>
  /\ Len(tin.headers) >= 1
  /\ tin.headers[1].key = Authorization /\ tin.header_name = authorization
  /\ tin.headers[1].value = <<"h">>
  /\ tout.ret = <<"c">>

\* C8: for a header value made of the word "bearer" in any letter case,
\* whitespace and a remainder x, with any whitespace around, the result of
\* extract_bearer_token is x trimmed; for a value without that prefix it is
\* the trimmed value; for empty or absent input, and when the remainder is
\* empty, it is absent; it is never the empty string.
C8_BearerPrefixStripped ==
  (tpc = "done" /\ tin.op = "extract") =>
    LET v == tin.header_value
        Absent(x) == IF x = <<>> THEN None ELSE x
    IN /\ tout # <<>>
       /\ ~Truthy(v) => tout = None
       /\ Truthy(v) =>
            IF tin.parts.word \in BearerWords /\ tin.parts.sep # <<>>
              THEN tout = Absent(Strip(tin.parts.rem))
              ELSE tout = Absent(Strip(v))

====
